---- MODULE Spec2Model ----
(***************************************************************************)
(* Model of the identifier and period validators of src/src/types.rs:      *)
(* Rrn::new, Rrn::check, the derived equality of Rrn, Kwartaal::new,       *)
(* BosaMonth::new, CipalMonth::new and the two to_kwartaal conversions.    *)
(*                                                                         *)
(* A Rust String is a sequence of characters; a character is a one-letter  *)
(* TLA+ string, except EAcute, which stands for one two-byte character.    *)
(* String::len() is the length in bytes, chars() walks characters.         *)
(***************************************************************************)
EXTENDS Integers, Sequences, FiniteSets, TLC

VARIABLES raw, raw2, pc, rrn, rrn2, eq, checked, stdout,
          praw, kwartaal, bosa, cipal, bosaKw, cipalKw,
          filename, disk, reader

vars == <<raw, raw2, pc, rrn, rrn2, eq, checked, stdout,
          praw, kwartaal, bosa, cipal, bosaKw, cipalKw,
          filename, disk, reader>>

rrnVars == <<raw, raw2, pc, rrn, rrn2, eq, checked, stdout>>

periodVars == <<praw, kwartaal, bosa, cipal, bosaKw, cipalKw>>

dmfaVars == <<filename, disk, reader>>

(***************************************************************************)
(* Bounds of the input sets.                                               *)
(***************************************************************************)
\* bases 0..MaxSweep and 999999999-MaxSweep..999999999 are swept with every control
MaxSweep == 100

\* years within YearMargin of each limit of the accepted range are swept
YearMargin == 2

\* a workbook has at most MaxSheets sheets
MaxSheets == 2

(***************************************************************************)
(* Characters and strings.                                                 *)
(***************************************************************************)
DigitChars == <<"0", "1", "2", "3", "4", "5", "6", "7", "8", "9">>

IsDigit(c) == \E i \in 1..10 : DigitChars[i] = c

DigitVal(c) == (CHOOSE i \in 1..10 : DigitChars[i] = c) - 1

\* a character whose UTF-8 encoding takes two bytes
EAcute == "e-acute"

WhiteSpace == {" "}

CharBytes(c) == IF c = EAcute THEN 2 ELSE 1

RECURSIVE ByteLen(_)
ByteLen(s) == IF s = <<>> THEN 0 ELSE CharBytes(Head(s)) + ByteLen(Tail(s))

RECURSIVE TrimStart(_)
TrimStart(s) ==
    IF s # <<>> /\ Head(s) \in WhiteSpace THEN TrimStart(Tail(s)) ELSE s

RECURSIVE TrimEnd(_)
TrimEnd(s) ==
    IF s # <<>> /\ s[Len(s)] \in WhiteSpace
    THEN TrimEnd(SubSeq(s, 1, Len(s) - 1))
    ELSE s

Trim(s) == TrimEnd(TrimStart(s))

\* str::replace(&[..][..], ""): every character of pats is removed
Replace(s, pats) == SelectSeq(s, LAMBDA c : c \notin pats)

\* chars().take(n)
Take(s, n) == SubSeq(s, 1, IF n < Len(s) THEN n ELSE Len(s))

\* chars().skip(n)
Skip(s, n) == SubSeq(s, n + 1, Len(s))

(***************************************************************************)
(* Unsigned machine integers.  A value is a pair <<hi, lo>> that stands    *)
(* for hi * 100000 + lo with lo < 100000, so that the whole range of u32   *)
(* (and one addition beyond it) is represented exactly.                    *)
(***************************************************************************)
Limb == 100000

Num(n) == <<n \div Limb, n % Limb>>

\* the integer a value stands for; used for values below 2^31 only
ToInt(a) == a[1] * Limb + a[2]

NumLe(a, b) == a[1] < b[1] \/ (a[1] = b[1] /\ a[2] <= b[2])

NumAdd(a, b) ==
    LET lo == a[2] + b[2] IN <<a[1] + b[1] + (lo \div Limb), lo % Limb>>

\* a - b for b <= a
NumSub(a, b) ==
    IF a[2] >= b[2] THEN <<a[1] - b[1], a[2] - b[2]>>
    ELSE <<a[1] - b[1] - 1, a[2] + Limb - b[2]>>

\* a * 10 + d
NumShift(a, d) ==
    LET lo == a[2] * 10 + d IN <<a[1] * 10 + (lo \div Limb), lo % Limb>>

\* a % m for a small m
NumMod(a, m) == (a[1] * (Limb % m) + a[2]) % m

\* u32::MAX = 4294967295
U32Max == <<42949, 67295>>

\* u16::MAX
U16Max == <<0, 65535>>

\* u8::MAX
U8Max == <<0, 255>>

\* 2^32
U32Wrap == NumAdd(U32Max, Num(1))

(***************************************************************************)
(* str::parse for the unsigned integer types: an optional leading '+',     *)
(* then decimal digits accumulated with overflow checks.                   *)
(***************************************************************************)
ParseOk(n) == [ok |-> TRUE, val |-> n, kind |-> "None"]

ParseErr(k) == [ok |-> FALSE, val |-> Num(0), kind |-> k]

RECURSIVE ParseDigits(_, _, _)
ParseDigits(s, acc, max) ==
    IF s = <<>> THEN ParseOk(acc)
    ELSE IF ~IsDigit(Head(s)) THEN ParseErr("InvalidDigit")
    ELSE IF ~NumLe(NumShift(acc, DigitVal(Head(s))), max)
    THEN ParseErr("PosOverflow")
    ELSE ParseDigits(Tail(s), NumShift(acc, DigitVal(Head(s))), max)

ParseUnsigned(s, max) ==
    IF s = <<>> THEN ParseErr("Empty")
    ELSE IF Len(s) = 1 /\ Head(s) \in {"+", "-"} THEN ParseErr("InvalidDigit")
    ELSE IF Head(s) = "+" THEN ParseDigits(Tail(s), Num(0), max)
    ELSE ParseDigits(s, Num(0), max)

(***************************************************************************)
(* Rrn                                                                     *)
(***************************************************************************)
NoRrn == [ok |-> FALSE, val |-> <<>>, err |-> "Unset"]

RrnOk(s) == [ok |-> TRUE, val |-> s, err |-> "None"]

RrnErr(e) == [ok |-> FALSE, val |-> <<>>, err |-> e]

\* the separators Rrn::new and Kwartaal::new remove
RrnSeparators == {".", "-"}

\* RrnStrip without the trim
RrnStrip_NoTrim(s) == Replace(s, RrnSeparators)

\* the normalisation of Rrn::new: trim, then remove the separators
RrnStrip(s) == Replace(Trim(s), RrnSeparators)

\* Rrn_new padding a 9-byte string with one zero only
Rrn_new_PadOne(s) ==
    LET r == RrnStrip(s) IN
    CASE ByteLen(r) = 11 -> RrnOk(r)
      [] ByteLen(r) = 10 -> RrnOk(<<"0">> \o r)
      [] ByteLen(r) = 9  -> RrnOk(<<"0">> \o r)
      [] OTHER           -> RrnErr("InvalidLength")

\* Rrn_new storing the accepted lengths without padding
Rrn_new_NoPad(s) ==
    LET r == RrnStrip(s) IN
    IF ByteLen(r) \in {9, 10, 11} THEN RrnOk(r) ELSE RrnErr("InvalidLength")

Rrn_new(s) ==
    LET r == RrnStrip(s) IN
    CASE ByteLen(r) = 11 -> RrnOk(r)
      [] ByteLen(r) = 10 -> RrnOk(<<"0">> \o r)
      [] ByteLen(r) = 9  -> RrnOk(<<"0", "0">> \o r)
      [] OTHER           -> RrnErr("InvalidLength")

\* derived PartialEq of Result<Rrn, RrnError>
Rrn_eq(a, b) ==
    IF a.ok /\ b.ok THEN a.val = b.val
    ELSE IF ~a.ok /\ ~b.ok THEN a.err = b.err
    ELSE FALSE

NoCheck == [ok |-> FALSE, gender |-> "None", err |-> "Unset", kind |-> "None"]

CheckOk(g) == [ok |-> TRUE, gender |-> g, err |-> "None", kind |-> "None"]

CheckErr(e, k) == [ok |-> FALSE, gender |-> "None", err |-> e, kind |-> k]

\* U32Add with the range of i32
U32Add_I32(a, b, build) ==
    LET sum == NumAdd(a, b) IN
    IF NumLe(sum, <<21474, 83647>>) THEN [panic |-> FALSE, val |-> sum]
    ELSE IF build = "debug" THEN [panic |-> TRUE, val |-> Num(0)]
    ELSE [panic |-> FALSE, val |-> NumSub(sum, <<21474, 83648>>)]

\* u32 addition: a debug build panics on overflow, a release build wraps
U32Add(a, b, build) ==
    LET sum == NumAdd(a, b) IN
    IF NumLe(sum, U32Max) THEN [panic |-> FALSE, val |-> sum]
    ELSE IF build = "debug" THEN [panic |-> TRUE, val |-> Num(0)]
    ELSE [panic |-> FALSE, val |-> NumSub(sum, U32Wrap)]

\* u32 subtraction: a debug build panics on underflow, a release build wraps
U32Sub(a, b, build) ==
    IF NumLe(b, a) THEN [panic |-> FALSE, val |-> NumSub(a, b)]
    ELSE IF build = "debug" THEN [panic |-> TRUE, val |-> Num(0)]
    ELSE [panic |-> FALSE, val |-> NumSub(NumAdd(a, U32Wrap), b)]

\* the modulus of the check digits
Modulus == 97

\* the offset added to the base of a person born in or after 2000
Post2000Offset == 2000000000

\* CheckPre2000 without the complement to 97
CheckPre2000_NoComplement(base, build) ==
    [panic |-> FALSE, val |-> Num(NumMod(base, Modulus))]

\* let check = 97 - (base % 97)
CheckPre2000(base, build) ==
    U32Sub(Num(Modulus), Num(NumMod(base, Modulus)), build)

\* CheckPost2000 without the offset
CheckPost2000_NoOffset(base, build) ==
    U32Sub(Num(Modulus), Num(NumMod(base, Modulus)), build)

\* let check2 = 97 - ((base + 2000000000) % 97)
CheckPost2000(base, build) ==
    LET sum == U32Add(base, Num(Post2000Offset), build) IN
    IF sum.panic THEN sum
    ELSE U32Sub(Num(Modulus), Num(NumMod(sum.val, Modulus)), build)

\* GenderOf with the two genders exchanged
GenderOf_Swapped(s) ==
    LET id == ParseUnsigned(Take(Skip(s, 6), 3), U32Max) IN
    IF ~id.ok THEN CheckErr("ParseIntError", id.kind)
    ELSE IF NumMod(id.val, 2) = 0 THEN CheckOk("M") ELSE CheckOk("F")

\* the sequence field: chars().skip(6).take(3), parsed; even is F, odd is M
GenderOf(s) ==
    LET id == ParseUnsigned(Take(Skip(s, 6), 3), U32Max) IN
    IF ~id.ok THEN CheckErr("ParseIntError", id.kind)
    ELSE IF NumMod(id.val, 2) = 0 THEN CheckOk("F") ELSE CheckOk("M")

\* Rrn::check trying the pre-2000 scheme only
Rrn_check_PreOnly(s, build) ==
    LET base    == ParseUnsigned(Take(s, 9), U32Max)
        control == ParseUnsigned(Skip(s, 9), U32Max)
    IN
    IF ~base.ok THEN [res |-> CheckErr("ParseIntError", base.kind), out |-> <<>>]
    ELSE IF ~control.ok
    THEN [res |-> CheckErr("ParseIntError", control.kind), out |-> <<>>]
    ELSE
      LET check == CheckPre2000(base.val, build) IN
      IF check.panic THEN [res |-> CheckErr("Panic", "None"), out |-> <<>>]
      ELSE IF check.val = control.val
      THEN [res |-> GenderOf(s), out |-> <<"Pre 2000">>]
      ELSE [res |-> CheckErr("InvalidControl", "None"), out |-> <<"Pre 2000">>]

\* Rrn::check: the result and the lines it prints
Rrn_check(s, build) ==
    LET base    == ParseUnsigned(Take(s, 9), U32Max)
        control == ParseUnsigned(Skip(s, 9), U32Max)
    IN
    IF ~base.ok THEN [res |-> CheckErr("ParseIntError", base.kind), out |-> <<>>]
    ELSE IF ~control.ok
    THEN [res |-> CheckErr("ParseIntError", control.kind), out |-> <<>>]
    ELSE
      LET check == CheckPre2000(base.val, build) IN
      IF check.panic THEN [res |-> CheckErr("Panic", "None"), out |-> <<>>]
      ELSE IF check.val = control.val
      THEN [res |-> GenderOf(s), out |-> <<"Pre 2000">>]
      ELSE
        LET check2 == CheckPost2000(base.val, build) IN
        IF check2.panic
        THEN [res |-> CheckErr("Panic", "None"), out |-> <<"Post 2000">>]
        ELSE IF check2.val = control.val
        THEN [res |-> GenderOf(s), out |-> <<"Post 2000">>]
        ELSE [res |-> CheckErr("InvalidControl", "None"), out |-> <<"Post 2000">>]

(***************************************************************************)
(* Kwartaal, BosaMonth, CipalMonth                                         *)
(***************************************************************************)
\* the first accepted year ("let's use the epoch as a reference")
MinYear == 1970

\* the last accepted year
MaxYear == 2100

NoKwartaalResult ==
    [ok |-> FALSE, year |-> 0, quarter |-> 0, err |-> "Unset", kind |-> "None"]

KwartaalOk(y, q) ==
    [ok |-> TRUE, year |-> y, quarter |-> q, err |-> "None", kind |-> "None"]

KwartaalErr(e, k) ==
    [ok |-> FALSE, year |-> 0, quarter |-> 0, err |-> e, kind |-> k]

\* Kwartaal_new rejecting the first year of the range
Kwartaal_new_YearExclusive(s) ==
    LET kwart == Replace(Trim(s), RrnSeparators) IN
    IF ByteLen(kwart) # 5 THEN KwartaalErr("InvalidLength", "None")
    ELSE
      LET year == ParseUnsigned(Take(kwart, 4), U16Max) IN
      IF ~year.ok THEN KwartaalErr("ParseIntError", year.kind)
      ELSE IF ToInt(year.val) <= MinYear THEN KwartaalErr("InvalidYear", "None")
      ELSE IF ToInt(year.val) > MaxYear THEN KwartaalErr("InvalidYear", "None")
      ELSE
        LET quarter == ParseUnsigned(Skip(kwart, 4), U8Max) IN
        IF ~quarter.ok THEN KwartaalErr("ParseIntError", quarter.kind)
        ELSE IF ToInt(quarter.val) < 1 THEN KwartaalErr("InvalidQuarter", "None")
        ELSE IF ToInt(quarter.val) > 4 THEN KwartaalErr("InvalidQuarter", "None")
        ELSE KwartaalOk(ToInt(year.val), ToInt(quarter.val))

Kwartaal_new(s) ==
    LET kwart == Replace(Trim(s), RrnSeparators) IN
    IF ByteLen(kwart) # 5 THEN KwartaalErr("InvalidLength", "None")
    ELSE
      LET year == ParseUnsigned(Take(kwart, 4), U16Max) IN
      IF ~year.ok THEN KwartaalErr("ParseIntError", year.kind)
      ELSE IF ToInt(year.val) < MinYear THEN KwartaalErr("InvalidYear", "None")
      ELSE IF ToInt(year.val) > MaxYear THEN KwartaalErr("InvalidYear", "None")
      ELSE
        LET quarter == ParseUnsigned(Skip(kwart, 4), U8Max) IN
        IF ~quarter.ok THEN KwartaalErr("ParseIntError", quarter.kind)
        ELSE IF ToInt(quarter.val) < 1 THEN KwartaalErr("InvalidQuarter", "None")
        ELSE IF ToInt(quarter.val) > 4 THEN KwartaalErr("InvalidQuarter", "None")
        ELSE KwartaalOk(ToInt(year.val), ToInt(quarter.val))

NoMonthResult ==
    [ok |-> FALSE, year |-> 0, month |-> 0, err |-> "Unset", kind |-> "None"]

MonthOk(y, m) ==
    [ok |-> TRUE, year |-> y, month |-> m, err |-> "None", kind |-> "None"]

MonthErr(e, k) ==
    [ok |-> FALSE, year |-> 0, month |-> 0, err |-> e, kind |-> k]

\* BosaMonth_new checking the month field before the year field
BosaMonth_new_MonthFirst(s) ==
    LET month == Trim(s) IN
    IF ByteLen(month) # 6 THEN MonthErr("InvalidLength", "None")
    ELSE
      LET m == ParseUnsigned(Skip(month, 4), U8Max) IN
      IF ~m.ok THEN MonthErr("ParseIntError", m.kind)
      ELSE IF ToInt(m.val) < 1 THEN MonthErr("InvalidMonth", "None")
      ELSE IF ToInt(m.val) > 12 THEN MonthErr("InvalidMonth", "None")
      ELSE
        LET year == ParseUnsigned(Take(month, 4), U16Max) IN
        IF ~year.ok THEN MonthErr("ParseIntError", year.kind)
        ELSE IF ToInt(year.val) < MinYear THEN MonthErr("InvalidYear", "None")
        ELSE IF ToInt(year.val) > MaxYear THEN MonthErr("InvalidYear", "None")
        ELSE MonthOk(ToInt(year.val), ToInt(m.val))

\* BosaMonth_new accepting month 13
BosaMonth_new_Month13(s) ==
    LET month == Trim(s) IN
    IF ByteLen(month) # 6 THEN MonthErr("InvalidLength", "None")
    ELSE
      LET year == ParseUnsigned(Take(month, 4), U16Max) IN
      IF ~year.ok THEN MonthErr("ParseIntError", year.kind)
      ELSE IF ToInt(year.val) < MinYear THEN MonthErr("InvalidYear", "None")
      ELSE IF ToInt(year.val) > MaxYear THEN MonthErr("InvalidYear", "None")
      ELSE
        LET m == ParseUnsigned(Skip(month, 4), U8Max) IN
        IF ~m.ok THEN MonthErr("ParseIntError", m.kind)
        ELSE IF ToInt(m.val) < 1 THEN MonthErr("InvalidMonth", "None")
        ELSE IF ToInt(m.val) > 13 THEN MonthErr("InvalidMonth", "None")
        ELSE MonthOk(ToInt(year.val), ToInt(m.val))

BosaMonth_new(s) ==
    LET month == Trim(s) IN
    IF ByteLen(month) # 6 THEN MonthErr("InvalidLength", "None")
    ELSE
      LET year == ParseUnsigned(Take(month, 4), U16Max) IN
      IF ~year.ok THEN MonthErr("ParseIntError", year.kind)
      ELSE IF ToInt(year.val) < MinYear THEN MonthErr("InvalidYear", "None")
      ELSE IF ToInt(year.val) > MaxYear THEN MonthErr("InvalidYear", "None")
      ELSE
        LET m == ParseUnsigned(Skip(month, 4), U8Max) IN
        IF ~m.ok THEN MonthErr("ParseIntError", m.kind)
        ELSE IF ToInt(m.val) < 1 THEN MonthErr("InvalidMonth", "None")
        ELSE IF ToInt(m.val) > 12 THEN MonthErr("InvalidMonth", "None")
        ELSE MonthOk(ToInt(year.val), ToInt(m.val))

\* the separator CipalMonth::new removes
CipalSeparators == {"/"}

\* CipalStrip padding on the right
CipalStrip_PadRight(s) ==
    LET month == Replace(Trim(s), CipalSeparators) IN
    IF ByteLen(month) = 5 THEN month \o <<"0">> ELSE month

\* the normalisation of CipalMonth::new: trim, remove '/', pad 5 bytes to 6
CipalStrip(s) ==
    LET month == Replace(Trim(s), CipalSeparators) IN
    IF ByteLen(month) = 5 THEN <<"0">> \o month ELSE month

\* CipalMonth_new reading the fields in the order of BosaMonth::new
CipalMonth_new_BosaOrder(s) ==
    LET month == CipalStrip(s) IN
    IF ByteLen(month) # 6 THEN MonthErr("InvalidLength", "None")
    ELSE
      LET year == ParseUnsigned(Take(month, 4), U16Max) IN
      IF ~year.ok THEN MonthErr("ParseIntError", year.kind)
      ELSE IF ToInt(year.val) < MinYear THEN MonthErr("InvalidYear", "None")
      ELSE IF ToInt(year.val) > MaxYear THEN MonthErr("InvalidYear", "None")
      ELSE
        LET m == ParseUnsigned(Skip(month, 4), U8Max) IN
        IF ~m.ok THEN MonthErr("ParseIntError", m.kind)
        ELSE IF ToInt(m.val) < 1 THEN MonthErr("InvalidMonth", "None")
        ELSE IF ToInt(m.val) > 12 THEN MonthErr("InvalidMonth", "None")
        ELSE MonthOk(ToInt(year.val), ToInt(m.val))

CipalMonth_new(s) ==
    LET month == CipalStrip(s) IN
    IF ByteLen(month) # 6 THEN MonthErr("InvalidLength", "None")
    ELSE
      LET year == ParseUnsigned(Take(Skip(month, 2), 4), U16Max) IN
      IF ~year.ok THEN MonthErr("ParseIntError", year.kind)
      ELSE IF ToInt(year.val) < MinYear THEN MonthErr("InvalidYear", "None")
      ELSE IF ToInt(year.val) > MaxYear THEN MonthErr("InvalidYear", "None")
      ELSE
        LET m == ParseUnsigned(Take(month, 2), U8Max) IN
        IF ~m.ok THEN MonthErr("ParseIntError", m.kind)
        ELSE IF ToInt(m.val) < 1 THEN MonthErr("InvalidMonth", "None")
        ELSE IF ToInt(m.val) > 12 THEN MonthErr("InvalidMonth", "None")
        ELSE MonthOk(ToInt(year.val), ToInt(m.val))

NoKwartaal == [set |-> FALSE, year |-> 0, quarter |-> 0]

\* QuarterOfMonth with the quarters starting one month early
QuarterOfMonth_Div3(m) == (m \div 3) + 1

\* the match of to_kwartaal
QuarterOfMonth(m) ==
    CASE m \in {1, 2, 3}    -> 1
      [] m \in {4, 5, 6}    -> 2
      [] m \in {7, 8, 9}    -> 3
      [] m \in {10, 11, 12} -> 4
      [] OTHER              -> 0

\* BosaMonth_to_kwartaal with month 3 matched in the second arm
BosaMonth_to_kwartaal_ThreeInSecond(b) ==
    [set |-> TRUE, year |-> b.year,
     quarter |-> IF b.month = 3 THEN 2 ELSE QuarterOfMonth(b.month)]

BosaMonth_to_kwartaal(b) ==
    [set |-> TRUE, year |-> b.year, quarter |-> QuarterOfMonth(b.month)]

CipalMonth_to_kwartaal(c) ==
    [set |-> TRUE, year |-> c.year, quarter |-> QuarterOfMonth(c.month)]

(***************************************************************************)
(* DmfaReader::new of src/src/dmfa.rs.  The file system is the file at the *)
(* path the filename names: absent, unreadable as a workbook, or a         *)
(* workbook with its sheet names.                                          *)
(***************************************************************************)
NoReader ==
    [ok |-> FALSE, err |-> "Unset", kbo_nummer |-> "", start_kwartaal |-> <<>>,
     stop_kwartaal |-> <<>>]

ReaderOk(kbo, start, stop) ==
    [ok |-> TRUE, err |-> "None", kbo_nummer |-> kbo, start_kwartaal |-> start,
     stop_kwartaal |-> stop]

ReaderErr(e) ==
    [ok |-> FALSE, err |-> e, kbo_nummer |-> "", start_kwartaal |-> <<>>,
     stop_kwartaal |-> <<>>]

\* char::to_lowercase on the letters of the extension
LowerChar(c) ==
    CASE c = "X" -> "x"
      [] c = "L" -> "l"
      [] c = "S" -> "s"
      [] OTHER   -> c

\* str::to_lowercase
ToLowercase(s) == [i \in 1..Len(s) |-> LowerChar(s[i])]

\* str::ends_with
EndsWith(s, suffix) ==
    /\ Len(s) >= Len(suffix)
    /\ SubSeq(s, Len(s) - Len(suffix) + 1, Len(s)) = suffix

XlsxExtension == <<".", "x", "l", "s", "x">>

\* str::split(sep).collect(): the parts of s between the separators
RECURSIVE SplitFrom(_, _, _)
SplitFrom(s, sep, part) ==
    IF s = <<>> THEN <<part>>
    ELSE IF Head(s) = sep THEN <<part>> \o SplitFrom(Tail(s), sep, <<>>)
    ELSE SplitFrom(Tail(s), sep, Append(part, Head(s)))

Split(s, sep) == SplitFrom(s, sep, <<>>)

\* let mut kbo_column = None; the loop that would assign it is commented out
KboColumn == [some |-> FALSE, col |-> 0]

\* the KBO number the constructor stores
KboNummer == "207527540"

\* DmfaReader::new checking the existence of the file before the extension
DmfaReader_new_ExistsFirst(name, file) ==
    IF name = <<>> THEN [res |-> ReaderErr("InvalidFilename"), out |-> <<>>]
    ELSE IF ~file.exists THEN [res |-> ReaderErr("FileNotFound"), out |-> <<>>]
    ELSE IF ~EndsWith(ToLowercase(name), XlsxExtension)
    THEN [res |-> ReaderErr("InvalidExtension"), out |-> <<>>]
    ELSE IF ~file.readable THEN [res |-> ReaderErr("FileNotFound"), out |-> <<>>]
    ELSE IF Len(file.sheets) = 0 THEN [res |-> ReaderErr("NoSheets"), out |-> <<>>]
    ELSE IF Len(file.sheets) # 1
    THEN [res |-> ReaderErr("TooManySheets"), out |-> <<>>]
    ELSE
      LET parts == Split(file.sheets[1], "_") IN
      IF Len(parts) < 3 THEN [res |-> ReaderErr("InvalidSheetName"), out |-> <<>>]
      ELSE IF ~KboColumn.some
      THEN [res |-> ReaderErr("KboNotFound"), out |-> <<"header_columns">>]
      ELSE [res |-> ReaderOk(KboNummer, parts[2], parts[3]),
            out |-> <<"header_columns">>]

\* DmfaReader::new: the result and the lines it prints
DmfaReader_new(name, file) ==
    IF name = <<>> THEN [res |-> ReaderErr("InvalidFilename"), out |-> <<>>]
    ELSE IF ~EndsWith(ToLowercase(name), XlsxExtension)
    THEN [res |-> ReaderErr("InvalidExtension"), out |-> <<>>]
    ELSE IF ~file.exists THEN [res |-> ReaderErr("FileNotFound"), out |-> <<>>]
    ELSE IF ~file.readable THEN [res |-> ReaderErr("FileNotFound"), out |-> <<>>]
    ELSE IF Len(file.sheets) = 0 THEN [res |-> ReaderErr("NoSheets"), out |-> <<>>]
    ELSE IF Len(file.sheets) # 1
    THEN [res |-> ReaderErr("TooManySheets"), out |-> <<>>]
    ELSE
      LET parts == Split(file.sheets[1], "_") IN
      IF Len(parts) < 3 THEN [res |-> ReaderErr("InvalidSheetName"), out |-> <<>>]
      ELSE IF ~KboColumn.some
      THEN [res |-> ReaderErr("KboNotFound"), out |-> <<"header_columns">>]
      ELSE [res |-> ReaderOk(KboNummer, parts[2], parts[3]),
            out |-> <<"header_columns">>]

FileNames ==
    { <<>>,
      <<"a", ".", "x", "l", "s", "x">>, <<"a", ".", "X", "L", "S", "X">>,
      <<"a", ".", "X", "l", "s", "x">>, <<".", "x", "l", "s", "x">>,
      <<"a", ".", "t", "x", "t">>, <<"x", "l", "s", "x">>,
      <<"a", ".", "x", "l", "s">>, <<"a", ".", "x", "l", "s", "x", ".", "t">> }

SheetNames ==
    { <<>>, <<"D", "M", "F", "A">>, <<"D", "_", "2", "0", "2", "1", "1">>,
      <<"D", "_", "2", "0", "2", "1", "1", "_", "2", "0", "2", "1", "4">>,
      <<"_", "_">>, <<"a", "_", "b", "_", "c", "_", "d">> }

NoFile == [exists |-> FALSE, readable |-> FALSE, sheets |-> <<>>]

Workbooks ==
    { [exists |-> TRUE, readable |-> TRUE, sheets |-> sh] :
        sh \in UNION { [1..n -> SheetNames] : n \in 0..MaxSheets } }

Disks ==
    {NoFile, [exists |-> TRUE, readable |-> FALSE, sheets |-> <<>>]} \cup Workbooks

DmfaIdle ==
    /\ filename = <<>>
    /\ disk = NoFile
    /\ reader = NoReader

(***************************************************************************)
(* Inputs of the Rrn operations.                                           *)
(***************************************************************************)
\* n written with w decimal digits
RECURSIVE Digits(_, _)
Digits(n, w) ==
    IF w = 0 THEN <<>>
    ELSE Append(Digits(n \div 10, w - 1), DigitChars[(n % 10) + 1])

RrnDigits(base, control) == Digits(base, 9) \o Digits(control, 2)

\* the highest 9-digit base
MaxBase == 999999999

SweepBases == (0..MaxSweep) \cup ((MaxBase - MaxSweep)..MaxBase)

\* the identifiers of the unit tests, with and without a leading zero
SampleRrns ==
    { RrnDigits(691001363, 59), RrnDigits(950228998, 74),
      RrnDigits(20224045, 96),  RrnDigits(50504132, 14),
      RrnDigits(150306300, 50), RrnDigits(950228998, 73),
      RrnDigits(1234567, 49) }

RrnFormats == {"plain", "dotted", "spaced", "short1", "short2", "short3",
               "long", "dotshort", "edge"}

RrnFormat(f, d) ==
    CASE f = "plain"    -> d
      [] f = "dotted"   -> SubSeq(d, 1, 2) \o <<".">> \o SubSeq(d, 3, 4) \o <<".">>
                           \o SubSeq(d, 5, 6) \o <<"-">> \o SubSeq(d, 7, 9)
                           \o <<".">> \o SubSeq(d, 10, 11)
      [] f = "spaced"   -> <<" ">> \o d \o <<" ", " ">>
      [] f = "short1"   -> Skip(d, 1)
      [] f = "short2"   -> Skip(d, 2)
      [] f = "short3"   -> Skip(d, 3)
      [] f = "long"     -> d \o <<"1">>
      [] f = "dotshort" -> SubSeq(d, 2, 2) \o <<".">> \o SubSeq(d, 3, 4) \o <<".">>
                           \o SubSeq(d, 5, 6) \o <<"-">> \o SubSeq(d, 7, 9)
                           \o <<"-">> \o SubSeq(d, 10, 11)
      [] f = "edge"     -> <<".", " ">> \o Skip(d, 1) \o <<" ", "-">>

FormatInputs == { RrnFormat(f, d) : f \in RrnFormats, d \in SampleRrns }

\* characters that are not decimal digits
OddChars == {"+", "-", ".", " ", "a", EAcute}

\* s with the character at position p replaced by c
SetChar(s, p, c) == [s EXCEPT ![p] = c]

MutatedInputs ==
    UNION { { SetChar(s, p, c) : p \in 1..Len(s), c \in OddChars } :
            s \in { RrnFormat(f, d) : f \in {"plain", "short1", "short2", "long"},
                                      d \in SampleRrns } }

SweepInputs == { RrnDigits(b, c) : b \in SweepBases, c \in 0..99 }

\* the second operand of a comparison
PairInputs ==
    { RrnFormat(f, d) : f \in {"plain", "dotted", "short1", "short2"},
                        d \in {RrnDigits(20224045, 96), RrnDigits(1234567, 49)} }
    \cup { <<"+">> \o Skip(RrnDigits(20224045, 96), 1), <<>> }

(***************************************************************************)
(* The Rrn operations as steps: construct, construct a second identifier,  *)
(* compare the two, check the first.                                       *)
(***************************************************************************)
PeriodIdle ==
    /\ praw = <<>>
    /\ kwartaal = NoKwartaalResult
    /\ bosa = NoMonthResult
    /\ cipal = NoMonthResult
    /\ bosaKw = NoKwartaal
    /\ cipalKw = NoKwartaal

InitRrn ==
    /\ \/ raw \in SweepInputs /\ raw2 = raw
       \/ raw \in FormatInputs \cup MutatedInputs /\ raw2 \in PairInputs
    /\ pc = "start"
    /\ rrn = NoRrn
    /\ rrn2 = NoRrn
    /\ eq = FALSE
    /\ checked = NoCheck
    /\ stdout = <<>>
    /\ PeriodIdle
    /\ DmfaIdle

\* let a = Rrn::new(raw)
CallRrnNew ==
    /\ pc = "start"
    /\ rrn' = Rrn_new(raw)
    /\ pc' = "new"
    /\ UNCHANGED <<raw, raw2, rrn2, eq, checked, stdout>>
    /\ UNCHANGED periodVars
    /\ UNCHANGED dmfaVars

\* let b = Rrn::new(raw2)
CallRrnNewOther ==
    /\ pc = "new"
    /\ rrn2' = Rrn_new(raw2)
    /\ pc' = "both"
    /\ UNCHANGED <<raw, raw2, rrn, eq, checked, stdout>>
    /\ UNCHANGED periodVars
    /\ UNCHANGED dmfaVars

\* a == b
CallRrnEq ==
    /\ pc = "both"
    /\ eq' = Rrn_eq(rrn, rrn2)
    /\ pc' = "compared"
    /\ UNCHANGED <<raw, raw2, rrn, rrn2, checked, stdout>>
    /\ UNCHANGED periodVars
    /\ UNCHANGED dmfaVars

\* a.unwrap().check()
CallRrnCheck ==
    /\ pc = "compared"
    /\ rrn.ok
    /\ \E build \in {"debug", "release"} :
         LET r == Rrn_check(rrn.val, build) IN
         /\ checked' = r.res
         /\ stdout' = stdout \o r.out
    /\ pc' = "checked"
    /\ UNCHANGED <<raw, raw2, rrn, rrn2, eq>>
    /\ UNCHANGED periodVars
    /\ UNCHANGED dmfaVars

NextRrn ==
    \/ CallRrnNew
    \/ CallRrnNewOther
    \/ CallRrnEq
    \/ CallRrnCheck

SpecRrn == InitRrn /\ [][NextRrn]_vars

(***************************************************************************)
(* Inputs of the period parsers: a year field and a quarter or month       *)
(* field, laid out in the ways the three formats and their neighbours do.  *)
(***************************************************************************)
SweepYears ==
    ((MinYear - YearMargin)..(MinYear + YearMargin))
    \cup ((MaxYear - YearMargin)..(MaxYear + YearMargin))

YearFields ==
    { Digits(y, 4) : y \in SweepYears \cup {0, 999, 2020, 2021, 9999} }
    \cup { <<"+", "9", "9", "9">>, <<"a", "b", "c", "d">>, <<"2", "0", " ", "1">>,
           <<"2", "0", "2", EAcute>>, <<"2", ".", "0", "2", "1">>, <<"2", "0", "2">> }

QuarterFields ==
    { <<DigitChars[i]>> : i \in 1..10 } \cup { <<"x">>, <<"+">>, <<" ">>, <<EAcute>> }

MonthFields ==
    { Digits(m, 2) : m \in (0..14) \cup {99} }
    \cup { <<"x", "x">>, <<"+", "1">>, <<"1", " ">>, <<" ", "1">>, <<"-", "1">>,
           <<"1", "+">> }

PeriodLayouts == {"YS", "SY", "Y.S", "Y-S", "S/Y", "spaced", "Y", "YSS", "/SY/"}

PeriodLayout(l, y, f) ==
    CASE l = "YS"     -> y \o f
      [] l = "SY"     -> f \o y
      [] l = "Y.S"    -> y \o <<".">> \o f
      [] l = "Y-S"    -> y \o <<"-">> \o f
      [] l = "S/Y"    -> f \o <<"/">> \o y
      [] l = "spaced" -> <<" ">> \o y \o f \o <<" ", " ">>
      [] l = "Y"      -> y
      [] l = "YSS"    -> y \o f \o f
      [] l = "/SY/"   -> <<"/">> \o f \o y \o <<"/">>

PeriodInputs ==
    { PeriodLayout(l, y, f) :
        l \in PeriodLayouts, y \in YearFields, f \in QuarterFields \cup MonthFields }

RrnIdle ==
    /\ raw = <<>>
    /\ raw2 = <<>>
    /\ pc = "period"
    /\ rrn = NoRrn
    /\ rrn2 = NoRrn
    /\ eq = FALSE
    /\ checked = NoCheck
    /\ stdout = <<>>

InitPeriod ==
    /\ praw \in PeriodInputs
    /\ kwartaal = NoKwartaalResult
    /\ bosa = NoMonthResult
    /\ cipal = NoMonthResult
    /\ bosaKw = NoKwartaal
    /\ cipalKw = NoKwartaal
    /\ RrnIdle
    /\ DmfaIdle

\* Kwartaal::new(praw)
CallKwartaalNew ==
    /\ pc = "period"
    /\ kwartaal = NoKwartaalResult
    /\ kwartaal' = Kwartaal_new(praw)
    /\ UNCHANGED <<praw, bosa, cipal, bosaKw, cipalKw>>
    /\ UNCHANGED rrnVars
    /\ UNCHANGED dmfaVars

\* BosaMonth::new(praw)
CallBosaMonthNew ==
    /\ pc = "period"
    /\ bosa = NoMonthResult
    /\ bosa' = BosaMonth_new(praw)
    /\ UNCHANGED <<praw, kwartaal, cipal, bosaKw, cipalKw>>
    /\ UNCHANGED rrnVars
    /\ UNCHANGED dmfaVars

\* CipalMonth::new(praw)
CallCipalMonthNew ==
    /\ pc = "period"
    /\ cipal = NoMonthResult
    /\ cipal' = CipalMonth_new(praw)
    /\ UNCHANGED <<praw, kwartaal, bosa, bosaKw, cipalKw>>
    /\ UNCHANGED rrnVars
    /\ UNCHANGED dmfaVars

\* BosaMonth::new(praw).unwrap().to_kwartaal()
CallBosaToKwartaal ==
    /\ pc = "period"
    /\ bosa.ok
    /\ ~bosaKw.set
    /\ bosaKw' = BosaMonth_to_kwartaal(bosa)
    /\ UNCHANGED <<praw, kwartaal, bosa, cipal, cipalKw>>
    /\ UNCHANGED rrnVars
    /\ UNCHANGED dmfaVars

\* CipalMonth::new(praw).unwrap().to_kwartaal()
CallCipalToKwartaal ==
    /\ pc = "period"
    /\ cipal.ok
    /\ ~cipalKw.set
    /\ cipalKw' = CipalMonth_to_kwartaal(cipal)
    /\ UNCHANGED <<praw, kwartaal, bosa, cipal, bosaKw>>
    /\ UNCHANGED rrnVars
    /\ UNCHANGED dmfaVars

NextPeriod ==
    \/ CallKwartaalNew
    \/ CallBosaMonthNew
    \/ CallCipalMonthNew
    \/ CallBosaToKwartaal
    \/ CallCipalToKwartaal

SpecPeriod == InitPeriod /\ [][NextPeriod]_vars

(***************************************************************************)
(* DmfaReader::new as a step.                                              *)
(***************************************************************************)
InitDmfa ==
    /\ filename \in FileNames
    /\ disk \in Disks
    /\ reader = NoReader
    /\ raw = <<>>
    /\ raw2 = <<>>
    /\ pc = "dmfa"
    /\ rrn = NoRrn
    /\ rrn2 = NoRrn
    /\ eq = FALSE
    /\ checked = NoCheck
    /\ stdout = <<>>
    /\ PeriodIdle

\* DmfaReader::new(filename)
CallDmfaReaderNew ==
    /\ pc = "dmfa"
    /\ reader = NoReader
    /\ LET r == DmfaReader_new(filename, disk) IN
       /\ reader' = r.res
       /\ stdout' = stdout \o r.out
    /\ UNCHANGED <<filename, disk>>
    /\ UNCHANGED <<raw, raw2, pc, rrn, rrn2, eq, checked>>
    /\ UNCHANGED periodVars

NextDmfa == CallDmfaReaderNew

SpecDmfa == InitDmfa /\ [][NextDmfa]_vars

(***************************************************************************)
(* Properties.  The arithmetic of the properties is the mathematical one,  *)
(* on the number a string of decimal digits denotes.                       *)
(***************************************************************************)
AllDigits(s) == \A i \in 1..Len(s) : IsDigit(s[i])

\* the number a string of at most 9 decimal digits denotes
RECURSIVE DecimalValue(_)
DecimalValue(s) ==
    IF s = <<>> THEN 0
    ELSE DecimalValue(SubSeq(s, 1, Len(s) - 1)) * 10 + DigitVal(s[Len(s)])

\* (a + b) mod m, computed without forming a + b
SumMod(a, b, m) == ((a % m) + (b % m)) % m

RrnChecked == pc = "checked"

RrnConstructed == pc # "start" /\ pc # "period"

\* C1: for a stored string of 11 decimal digits, check returns Ok exactly when
\* the control equals 97 - (base mod 97) or 97 - ((base + 2000000000) mod 97),
\* and Err(InvalidControl) in every other case.
C1_CheckDecidedByChecksums ==
    (RrnChecked /\ AllDigits(rrn.val)) =>
        LET base    == DecimalValue(SubSeq(rrn.val, 1, 9))
            control == DecimalValue(SubSeq(rrn.val, 10, 11))
            pre     == 97 - (base % 97)
            post    == 97 - SumMod(base, 2000000000, 97)
        IN  /\ checked.ok <=> (control = pre \/ control = post)
            /\ ~checked.ok => checked.err = "InvalidControl"

\* an all-digit identifier accepted under the post-2000 scheme
C1_Witness ==
    /\ RrnChecked
    /\ AllDigits(rrn.val)
    /\ checked.ok
    /\ stdout = <<"Post 2000">>
    /\ DecimalValue(SubSeq(rrn.val, 10, 11))
         # 97 - (DecimalValue(SubSeq(rrn.val, 1, 9)) % 97)

\* C2: whenever check succeeds, under either scheme, the gender is F when the
\* sequence field (characters 7 to 9 of the stored string) is even and M when
\* it is odd.
C2_GenderFromSequenceParity ==
    (RrnChecked /\ checked.ok) =>
        /\ AllDigits(SubSeq(rrn.val, 7, 9))
        /\ checked.gender =
             IF DecimalValue(SubSeq(rrn.val, 7, 9)) % 2 = 0 THEN "F" ELSE "M"

\* a male identifier accepted under the post-2000 scheme
C2_Witness ==
    /\ RrnChecked
    /\ checked.ok
    /\ checked.gender = "M"
    /\ stdout = <<"Post 2000">>
    /\ DecimalValue(SubSeq(rrn.val, 7, 9)) % 2 = 1

\* C3 as stated: every Rrn that Rrn::new returns Ok for holds exactly 11 ASCII
\* decimal digits, whatever the raw input.
C3_StoredIsElevenDigits ==
    (RrnConstructed /\ rrn.ok) => (Len(rrn.val) = 11 /\ AllDigits(rrn.val))

\* C3 amended: every Rrn that Rrn::new returns Ok for holds a string of exactly
\* 11 bytes, and that string is 11 ASCII decimal digits exactly when every
\* character left after trimming and removing '.' and '-' is a decimal digit.
C3_StoredIsElevenBytes ==
    (RrnConstructed /\ rrn.ok) =>
        /\ ByteLen(rrn.val) = 11
        /\ (Len(rrn.val) = 11 /\ AllDigits(rrn.val))
             <=> AllDigits(Replace(Trim(raw), {".", "-"}))

\* a constructed identifier that holds a character that is not a digit
C3_Witness ==
    /\ RrnConstructed
    /\ rrn.ok
    /\ ~AllDigits(rrn.val)
    /\ Len(Replace(Trim(raw), {".", "-"})) < Len(rrn.val)

\* C4: with r the trimmed input without '.' and '-': length 11 is stored
\* unchanged, length 10 or 9 is stored left-padded with one or two '0', every
\* other length is Err(InvalidLength); a canonical 11-digit string normalizes
\* to itself.
C4_NewByLength ==
    RrnConstructed =>
        LET r == Replace(Trim(raw), {".", "-"})
            n == ByteLen(r)
        IN  /\ n = 11 => (rrn.ok /\ rrn.val = r)
            /\ n = 10 => (rrn.ok /\ rrn.val = <<"0">> \o r)
            /\ n = 9  => (rrn.ok /\ rrn.val = <<"0", "0">> \o r)
            /\ n \notin {9, 10, 11} => (~rrn.ok /\ rrn.err = "InvalidLength")
            /\ (rrn.ok /\ AllDigits(rrn.val)) => Rrn_new(rrn.val) = rrn

\* a 9-character input stored with two leading zeros
C4_Witness ==
    /\ RrnConstructed
    /\ ByteLen(Replace(Trim(raw), {".", "-"})) = 9
    /\ rrn.ok
    /\ SubSeq(rrn.val, 1, 2) = <<"0", "0">>
    /\ Len(rrn.val) = 11

\* C5 as stated: for a stored string with a character that is not a decimal
\* digit, check returns the ParseIntError outcome, never Ok or InvalidControl.
C5_NonDigitIsParseError ==
    (RrnChecked /\ ~AllDigits(rrn.val)) => checked.err = "ParseIntError"

\* C6: for no base do the pre-2000 and the post-2000 checksum have the same
\* value, so no identifier validates under both schemes.
C6_SchemesNeverAgree ==
    (RrnConstructed /\ rrn.ok /\ AllDigits(Take(rrn.val, 9))) =>
        LET base == ParseUnsigned(Take(rrn.val, 9), U32Max).val IN
        \A build \in {"debug", "release"} :
            /\ ~CheckPost2000(base, build).panic
            /\ CheckPre2000(base, build).val # CheckPost2000(base, build).val

\* an identifier accepted under the pre-2000 scheme, which is tried first
C6_Witness ==
    /\ RrnChecked
    /\ AllDigits(rrn.val)
    /\ checked.ok
    /\ stdout = <<"Pre 2000">>
    /\ DecimalValue(SubSeq(rrn.val, 10, 11))
         # 97 - SumMod(DecimalValue(SubSeq(rrn.val, 1, 9)), 2000000000, 97)

\* s left-padded with '0' to w bytes
RECURSIVE PadLeft(_, _)
PadLeft(s, w) == IF ByteLen(s) >= w THEN s ELSE PadLeft(<<"0">> \o s, w)

\* the normal form of C7: trim, remove '.' and '-', left-pad with zeros to 11
Normalized(s) == PadLeft(Replace(Trim(s), {".", "-"}), 11)

RrnCompared == pc \in {"compared", "checked"}

\* C7: for two raw strings on which Rrn::new succeeds, the identifiers are
\* equal exactly when the raw strings have the same normal form.
C7_EqualIffSameNormalForm ==
    (RrnCompared /\ rrn.ok /\ rrn2.ok) =>
        (eq <=> Normalized(raw) = Normalized(raw2))

\* two identifiers written differently, one without its leading zero, equal
C7_Witness ==
    /\ RrnCompared
    /\ rrn.ok
    /\ rrn2.ok
    /\ eq
    /\ ByteLen(Replace(Trim(raw), {".", "-"})) = 10
    /\ ByteLen(Replace(Trim(raw2), {".", "-"})) = 11
    /\ "." \in {raw2[i] : i \in 1..Len(raw2)}

KwartaalCalled == kwartaal # NoKwartaalResult

BosaCalled == bosa # NoMonthResult

CipalCalled == cipal # NoMonthResult

\* C8: Kwartaal::new succeeds exactly when the trimmed input without '.' and
\* '-' is 5 decimal digits YYYYQ with 1970 <= YYYY <= 2100 and 1 <= Q <= 4, and
\* then returns year YYYY and quarter Q.
C8_KwartaalAcceptsExactly ==
    KwartaalCalled =>
        LET k     == Replace(Trim(praw), {".", "-"})
            valid == /\ Len(k) = 5
                     /\ AllDigits(k)
                     /\ DecimalValue(SubSeq(k, 1, 4)) \in 1970..2100
                     /\ DecimalValue(SubSeq(k, 5, 5)) \in 1..4
        IN  /\ kwartaal.ok <=> valid
            /\ kwartaal.ok =>
                 /\ kwartaal.year = DecimalValue(SubSeq(k, 1, 4))
                 /\ kwartaal.quarter = DecimalValue(SubSeq(k, 5, 5))

\* the first year and the last quarter are accepted
C8_Witness ==
    /\ KwartaalCalled
    /\ kwartaal.ok
    /\ kwartaal.year = 1970
    /\ kwartaal.quarter = 4

\* the error of the first failing check, in the order length, year parse,
\* year range, second field parse, second field range
FirstFailure(len, want, yearField, subField, subMax, subErr) ==
    LET year == ParseUnsigned(yearField, U16Max)
        sub  == ParseUnsigned(subField, U8Max)
    IN
    CASE len # want -> "InvalidLength"
      [] len = want /\ ~year.ok -> "ParseIntError"
      [] len = want /\ year.ok /\ ToInt(year.val) \notin 1970..2100 -> "InvalidYear"
      [] len = want /\ year.ok /\ ToInt(year.val) \in 1970..2100 /\ ~sub.ok
           -> "ParseIntError"
      [] len = want /\ year.ok /\ ToInt(year.val) \in 1970..2100 /\ sub.ok
           /\ ToInt(sub.val) \notin 1..subMax -> subErr
      [] OTHER -> "None"

\* C9: Kwartaal::new and BosaMonth::new return the error of the first failing
\* check in the order length, year parse, year range, quarter or month parse,
\* quarter or month range.
C9_FirstFailingCheck ==
    /\ KwartaalCalled =>
         LET k == Replace(Trim(praw), {".", "-"}) IN
         kwartaal.err =
           FirstFailure(ByteLen(k), 5, Take(k, 4), Skip(k, 4), 4, "InvalidQuarter")
    /\ BosaCalled =>
         LET m == Trim(praw) IN
         bosa.err =
           FirstFailure(ByteLen(m), 6, Take(m, 4), Skip(m, 4), 12, "InvalidMonth")

\* one input of accepted length for both parsers, its year out of range and
\* its second field not numeric: both report the year
C9_Witness ==
    /\ KwartaalCalled
    /\ BosaCalled
    /\ kwartaal.err = "InvalidYear"
    /\ bosa.err = "InvalidYear"
    /\ ~ParseUnsigned(Skip(Replace(Trim(praw), {".", "-"}), 4), U8Max).ok
    /\ ~ParseUnsigned(Skip(Trim(praw), 4), U8Max).ok

\* C10 as stated: CipalMonth::new checks the month field before the year
\* field, so an input of accepted length whose month is invalid yields the
\* month's error (ParseIntError or InvalidMonth) whatever its year.
C10_CipalMonthBeforeYear ==
    CipalCalled =>
        LET m     == CipalStrip(praw)
            month == ParseUnsigned(Take(m, 2), U8Max)
        IN  /\ (ByteLen(m) = 6 /\ ~month.ok) => cipal.err = "ParseIntError"
            /\ (ByteLen(m) = 6 /\ month.ok /\ ToInt(month.val) \notin 1..12)
                 => cipal.err = "InvalidMonth"

\* characters of s
Chars(s) == {s[i] : i \in 1..Len(s)}

\* C11 as stated: an input that passes the length check and has a numeric
\* in-range year but a character that is not a decimal digit in its quarter or
\* month field is rejected with ParseIntError by each of the three constructors.
C11_NonDigitFieldIsParseError ==
    /\ KwartaalCalled =>
         LET k == Replace(Trim(praw), {".", "-"}) IN
         (/\ ByteLen(k) = 5
          /\ AllDigits(Take(k, 4))
          /\ DecimalValue(Take(k, 4)) \in 1970..2100
          /\ ~AllDigits(Skip(k, 4))) => kwartaal.err = "ParseIntError"
    /\ BosaCalled =>
         LET m == Trim(praw) IN
         (/\ ByteLen(m) = 6
          /\ AllDigits(Take(m, 4))
          /\ DecimalValue(Take(m, 4)) \in 1970..2100
          /\ ~AllDigits(Skip(m, 4))) => bosa.err = "ParseIntError"
    /\ CipalCalled =>
         LET m == CipalStrip(praw) IN
         (/\ ByteLen(m) = 6
          /\ AllDigits(Take(Skip(m, 2), 4))
          /\ DecimalValue(Take(Skip(m, 2), 4)) \in 1970..2100
          /\ ~AllDigits(Take(m, 2))) => cipal.err = "ParseIntError"

\* C12: an input with 5 bytes left after trimming and removing '/' gives the
\* result of the same digits with one '0' in front; a length other than 5 or 6
\* gives InvalidLength.
C12_CipalFiveIsZeroPadded ==
    CipalCalled =>
        LET m == Replace(Trim(praw), {"/"}) IN
        /\ ByteLen(m) = 5 => cipal = CipalMonth_new(<<"0">> \o m)
        /\ (ByteLen(m) = 5 /\ AllDigits(m)) =>
             cipal = CipalMonth_new(<<"0", m[1], "/">> \o Skip(m, 1))
        /\ ByteLen(m) \notin {5, 6} => cipal.err = "InvalidLength"

\* a month written with one digit, accepted
C12_Witness ==
    /\ CipalCalled
    /\ cipal.ok
    /\ ByteLen(Replace(Trim(praw), {"/"})) = 5
    /\ "/" \in Chars(praw)
    /\ cipal.month = DigitVal(Trim(praw)[1])

\* C13: to_kwartaal of a BosaMonth and of a CipalMonth keeps the year and
\* returns quarter ((month - 1) div 3) + 1.
C13_QuarterOfMonth ==
    /\ bosaKw.set =>
         /\ bosaKw.year = bosa.year
         /\ bosaKw.quarter = ((bosa.month - 1) \div 3) + 1
    /\ cipalKw.set =>
         /\ cipalKw.year = cipal.year
         /\ cipalKw.quarter = ((cipal.month - 1) \div 3) + 1

\* a CIPAL month at the start of the last quarter, converted
C13_Witness ==
    /\ cipalKw.set
    /\ cipal.month = 10
    /\ cipalKw.quarter = 4

AcceptedBy ==
    {n \in {"kwartaal", "bosa", "cipal"} :
        \/ n = "kwartaal" /\ kwartaal.ok
        \/ n = "bosa" /\ bosa.ok
        \/ n = "cipal" /\ cipal.ok}

\* C14: no raw string is accepted by more than one of the three constructors.
C14_AtMostOneAccepts == Cardinality(AcceptedBy) <= 1

\* six digits tried by all three constructors, accepted as a BOSA month only
C14_Witness ==
    /\ KwartaalCalled
    /\ BosaCalled
    /\ CipalCalled
    /\ AcceptedBy = {"bosa"}
    /\ cipal.err = "InvalidMonth"

\* C15: every value a constructor returns Ok has its year in 1970..2100 and
\* its quarter in 1..4 or its month in 1..12, and every Kwartaal to_kwartaal
\* returns has its year in 1970..2100 and its quarter in 1..4.
C15_RangesHold ==
    /\ kwartaal.ok => (kwartaal.year \in 1970..2100 /\ kwartaal.quarter \in 1..4)
    /\ bosa.ok => (bosa.year \in 1970..2100 /\ bosa.month \in 1..12)
    /\ cipal.ok => (cipal.year \in 1970..2100 /\ cipal.month \in 1..12)
    /\ bosaKw.set => (bosaKw.year \in 1970..2100 /\ bosaKw.quarter \in 1..4)
    /\ cipalKw.set => (cipalKw.year \in 1970..2100 /\ cipalKw.quarter \in 1..4)

\* the last month of the last year, converted
C15_Witness ==
    /\ bosaKw.set
    /\ bosa.month = 12
    /\ bosaKw.year = 2100
    /\ bosaKw.quarter = 4

\* C16 as stated: Rrn::check writes nothing on any path.
C16_CheckWritesNothing == RrnChecked => stdout = <<>>

\* C19: for a year YYYY and a month MM, BosaMonth::new("YYYYMM").to_kwartaal(),
\* CipalMonth::new("MM/YYYY").to_kwartaal() and Kwartaal::new("YYYYQ") with
\* Q = ((MM - 1) div 3) + 1 are the same Kwartaal.
C19_OneCanonicalQuarter ==
    (bosaKw.set /\ AllDigits(praw) /\ Len(praw) = 6) =>
        LET yyyy == Take(praw, 4)
            mm   == Skip(praw, 4)
            q    == ((DecimalValue(mm) - 1) \div 3) + 1
            c    == CipalMonth_new(mm \o <<"/">> \o yyyy)
            k    == Kwartaal_new(yyyy \o Digits(q, 1))
        IN  /\ c.ok
            /\ CipalMonth_to_kwartaal(c) = bosaKw
            /\ k.ok
            /\ k.year = bosaKw.year
            /\ k.quarter = bosaKw.quarter

\* the six digits of March of the first year, converted to the first quarter
C19_Witness ==
    /\ bosaKw.set
    /\ AllDigits(praw)
    /\ Len(praw) = 6
    /\ bosa.month = 3
    /\ bosaKw.year = 1970
    /\ bosaKw.quarter = 1

\* C20: for a stored string whose base parses, the base is at most 999999999,
\* base + 2000000000 fits in 32 bits, both checksums lie in 1..97, and check
\* returns a result in either build.
C20_NoOverflow ==
    /\ RrnChecked => checked.err # "Panic"
    /\ (RrnConstructed /\ rrn.ok /\ ParseUnsigned(Take(rrn.val, 9), U32Max).ok) =>
         LET base == ParseUnsigned(Take(rrn.val, 9), U32Max).val IN
         /\ NumLe(base, Num(999999999))
         /\ \A build \in {"debug", "release"} :
              /\ ~U32Add(base, Num(2000000000), build).panic
              /\ U32Add(base, Num(2000000000), build).val
                   = NumAdd(base, Num(2000000000))
              /\ ~CheckPre2000(base, build).panic
              /\ ~CheckPost2000(base, build).panic
              /\ ToInt(CheckPre2000(base, build).val) \in 1..97
              /\ ToInt(CheckPost2000(base, build).val) \in 1..97

\* the highest base, checked through the post-2000 branch
C20_Witness ==
    /\ RrnChecked
    /\ Take(rrn.val, 9) = Digits(999999999, 9)
    /\ stdout = <<"Post 2000">>
    /\ checked.err # "Panic"

ReaderCalled == reader # NoReader

\* the number of '_' in s, one less than the number of its '_'-separated parts
Underscores(s) == Cardinality({i \in 1..Len(s) : s[i] = "_"})

\* the last five characters of the name are ".xlsx" in any letter case
HasXlsxExtension(name) ==
    /\ Len(name) >= 5
    /\ name[Len(name) - 4] = "."
    /\ name[Len(name) - 3] \in {"x", "X"}
    /\ name[Len(name) - 2] \in {"l", "L"}
    /\ name[Len(name) - 1] \in {"s", "S"}
    /\ name[Len(name)] \in {"x", "X"}

\* C17 as stated: for a filename that is not empty and ends in .xlsx, naming a
\* file that exists and reads as a workbook with exactly one sheet whose name
\* has at least three '_'-separated parts, DmfaReader::new returns Ok with
\* kbo_nummer "207527540".
C17_ValidWorkbookIsOk ==
    (/\ ReaderCalled
     /\ filename # <<>>
     /\ HasXlsxExtension(filename)
     /\ disk.exists
     /\ disk.readable
     /\ Len(disk.sheets) = 1
     /\ Underscores(disk.sheets[1]) >= 2) =>
        (reader.ok /\ reader.kbo_nummer = "207527540")

\* C18: DmfaReader::new returns the first failure in the order empty filename,
\* extension, existence of the file, number of sheets, sheet name.
C18_FirstFailureInOrder ==
    ReaderCalled =>
        LET empty   == filename = <<>>
            ext     == HasXlsxExtension(filename)
            present == disk.exists
            book    == disk.exists /\ disk.readable
            n       == Len(disk.sheets)
        IN  /\ empty => reader.err = "InvalidFilename"
            /\ (~empty /\ ~ext) => reader.err = "InvalidExtension"
            /\ (~empty /\ ext /\ ~present) => reader.err = "FileNotFound"
            /\ (~empty /\ ext /\ book /\ n = 0) => reader.err = "NoSheets"
            /\ (~empty /\ ext /\ book /\ n > 1) => reader.err = "TooManySheets"
            /\ (~empty /\ ext /\ book /\ n = 1 /\ Underscores(disk.sheets[1]) < 2)
                 => reader.err = "InvalidSheetName"

\* a file that does not exist, named with a wrong extension
C18_Witness ==
    /\ ReaderCalled
    /\ filename # <<>>
    /\ ~HasXlsxExtension(filename)
    /\ ~disk.exists
    /\ reader.err = "InvalidExtension"

\* the controls 00..99 with which check accepts the nine base digits
ValidControls(baseDigits, build) ==
    {c \in 0..99 : Rrn_check(baseDigits \o Digits(c, 2), build).res.ok}

\* C21: every checked 11-digit identifier with control 00, 98 or 99, and every
\* one that is not accepted, gets InvalidControl; and for the base of every
\* accepted identifier and of every identifier with control 00 (one for each
\* base of the sweep), exactly two of the controls 00..99 make check return Ok,
\* both in 1..97, and every other control gives InvalidControl.
C21_ExactlyTwoControls ==
    (RrnChecked /\ Len(rrn.val) = 11 /\ AllDigits(rrn.val)) =>
        LET baseDigits == SubSeq(rrn.val, 1, 9)
            control    == DecimalValue(SubSeq(rrn.val, 10, 11))
        IN  /\ control \in {0, 98, 99} => checked.err = "InvalidControl"
            /\ ~checked.ok => checked.err = "InvalidControl"
            /\ (checked.ok \/ control = 0) =>
                 \A build \in {"debug", "release"} :
                   \E valid \in {ValidControls(baseDigits, build)} :
                     /\ Cardinality(valid) = 2
                     /\ valid \subseteq 1..97
                     /\ checked.ok <=> control \in valid
                     /\ \A c \in (0..99) \ valid :
                          Rrn_check(baseDigits \o Digits(c, 2), build).res.err
                            = "InvalidControl"

\* an identifier accepted under the pre-2000 scheme whose base has a second,
\* different valid control
C21_Witness ==
    /\ RrnChecked
    /\ Len(rrn.val) = 11
    /\ AllDigits(rrn.val)
    /\ checked.ok
    /\ stdout = <<"Pre 2000">>
    /\ \E c \in 1..97 :
         /\ c # DecimalValue(SubSeq(rrn.val, 10, 11))
         /\ Rrn_check(SubSeq(rrn.val, 1, 9) \o Digits(c, 2), "release").res.ok

====
